---- MODULE Spec2Model ----
(***************************************************************************)
(* Transcript timestamp search and time-segment selection of the audio     *)
(* analyzer front-end (AudioAnalyzer, TranscriptionTab, NewAudioDialog).   *)
(*                                                                         *)
(* Times are integers in milliseconds.  A string that the code inspects    *)
(* character by character (a word, a search term) is a sequence of         *)
(* one-character strings; a string the code only parses as a number is a   *)
(* TLA+ string looked up in the parseFloat table.                          *)
(***************************************************************************)
EXTENDS Integers, Sequences, FiniteSets, TLC

\* ------------------------------------------------------------------------
\* Bounds of the model
\* ------------------------------------------------------------------------

\* longest free-form transcript (a sequence over RecordPool) a response holds
MaxLen == 2

\* ------------------------------------------------------------------------
\* Program constants
\* ------------------------------------------------------------------------

\* matches.slice(0, 50)
\* an operation is started while fewer than MaxTimers progress resets are
\* pending
MaxTimers == 2

\* an LLM call is started while processHistory has fewer than MaxHistory
\* entries
MaxHistory == 2
\* a fetch of /api/model is issued while fewer than MaxCalls are under way
MaxCalls == 2
\* the route /api/latex accepts a request while it has seen fewer than MaxJobs
MaxJobs == 2
\* the route /api/transcribe accepts a request while it has seen fewer than
\* MaxRequests
MaxRequests == 2

MaxResults == 50

\* Math.abs(m.start - match.start) < 0.1, in milliseconds
DedupEpsilon == 100

\* audioDuration: null, and the undefined audioDuration of a response
Null == -1

\* the NaN that parseFloat returns for a string with no numeric prefix
NaN == -999999

\* audioFilePath: null
NoFile == "null"

\* ------------------------------------------------------------------------
\* Strings: toLowerCase, trim, includes
\* ------------------------------------------------------------------------

UpperCase == <<"A","B","C","D","E","F","G","H","I","J","K","L","M",
               "N","O","P","Q","R","S","T","U","V","W","X","Y","Z">>

LowerCase == <<"a","b","c","d","e","f","g","h","i","j","k","l","m",
               "n","o","p","q","r","s","t","u","v","w","x","y","z">>

\* the white space characters the search terms of the model contain
WhiteSpace == {" "}

toLowerCaseChar(c) ==
    IF \E i \in 1..Len(UpperCase) : UpperCase[i] = c
    THEN LowerCase[CHOOSE i \in 1..Len(UpperCase) : UpperCase[i] = c]
    ELSE c

\* String.prototype.toLowerCase
toLowerCase(s) == [i \in 1..Len(s) |-> toLowerCaseChar(s[i])]

\* String.prototype.trim: drops leading and trailing white space
trim(s) ==
    LET nonWs == {i \in 1..Len(s) : s[i] \notin WhiteSpace}
    IN IF nonWs = {} THEN <<>>
       ELSE LET first == CHOOSE i \in nonWs : \A j \in nonWs : i <= j
                last  == CHOOSE i \in nonWs : \A j \in nonWs : i >= j
            IN SubSeq(s, first, last)

\* String.prototype.includes: q occurs in w as a contiguous substring
includes(w, q) ==
    \E i \in 0..(Len(w) - Len(q)) : SubSeq(w, i + 1, i + Len(q)) = q

\* ------------------------------------------------------------------------
\* Numbers: toFixed(1) and the 0.1 s comparison on IEEE doubles
\* ------------------------------------------------------------------------

\* Start values ms/1000 at an exact x.x5 tie whose double lies below the
\* decimal, so that toFixed(1) rounds them down (0.15 -> "0.1",
\* 0.35 -> "0.3"); every other tie rounds up (0.25 -> "0.3", 1.05 -> "1.1").
\* Covers the multiples of 10 ms below 3 s.
TieRoundsDown == {150, 350, 850, 950, 1150, 1450, 1650, 1950,
                  2050, 2150, 2550, 2650}

\* Number.prototype.toFixed(1) of ms/1000, as the number of tenths that the
\* resulting string denotes ("1.0" is 10).  ms >= 0.
toFixed1(ms) ==
    IF ms % 100 = 50 /\ ms \in TieRoundsDown
    THEN ms \div 100
    ELSE (ms + 50) \div 100

\* Lower values a (multiples of 10 ms below 1.5 s) of a pair a, a + 100 whose
\* doubles differ by less than the double 0.1 (1.0 - 0.9 < 0.1 is true,
\* 1.1 - 1.0 < 0.1 is false).  The ramp transcripts lie on multiples of
\* 200 ms, where no two values are 100 ms apart.
NearAtTenth == {20, 50, 80, 110, 140, 190, 200, 250, 260, 270, 280, 310,
                320, 330, 340, 370, 380, 390, 400, 470, 480, 490, 500,
                510, 520, 530, 540, 550, 560, 590, 600, 610, 620, 630,
                640, 650, 660, 670, 680, 720, 730, 740, 750, 760, 770,
                780, 790, 800, 810, 840, 850, 860, 870, 880, 890, 900,
                910, 920, 930, 1030, 1040, 1050, 1060, 1070, 1080, 1090,
                1100, 1110, 1120, 1280, 1290, 1300, 1310, 1320, 1330,
                1340, 1350, 1360, 1370}

\* Math.abs(a - b) < 0.1 on the doubles a/1000 and b/1000
Near(a, b) ==
    LET d  == IF a >= b THEN a - b ELSE b - a
        lo == IF a >= b THEN b ELSE a
    IN d < DedupEpsilon \/ (d = DedupEpsilon /\ lo \in NearAtTenth)

\* ------------------------------------------------------------------------
\* Transcription responses the backend can produce
\* ------------------------------------------------------------------------

Rec(w, s, e) == [word |-> w, start |-> s, end |-> e]

\* records the free-form transcripts are built from: two hits in one 0.1 s
\* bucket (1.00, 1.04)
RecordPool == { Rec(<<"H","i">>, 1000, 1500),
                Rec(<<"h","i">>, 1040, 1300) }

FreeForm == UNION { [1..n -> RecordPool] : n \in 0..MaxLen }

\* the five-word scenario transcript
Scenario == << Rec(<<"H","e","l","l","o",",">>, 0, 500),
               Rec(<<"t","h","i","s">>, 700, 900),
               Rec(<<"i","s">>, 900, 1000),
               Rec(<<"p","e","r","s","o","n">>, 1000, 1400),
               Rec(<<"2">>, 1400, 1600) >>

\* two "hi" at 1.00 and 1.04
SameBucket == << Rec(<<"h","i">>, 1000, 1200), Rec(<<"h","i">>, 1040, 1300) >>

\* two "hi" 20 ms apart in different 0.1 s buckets
NearPair == << Rec(<<"h","i">>, 1040, 1200), Rec(<<"h","i">>, 1060, 1300) >>

\* three hits, each within 0.1 s of the one before it
Chain == << Rec(<<"h","i">>, 1000, 1200), Rec(<<"h","i">>, 1060, 1300),
            Rec(<<"H","i">>, 1140, 1400) >>

\* 0.25 and 0.35 both print as "0.3"
TieBucket == << Rec(<<"h","i">>, 250, 300), Rec(<<"h","i">>, 350, 400) >>

\* out of temporal order
Unordered == << Rec(<<"h","i">>, 1400, 1500), Rec(<<"H","i">>, 1000, 1200) >>

\* n hits 0.2 s apart
RampStep == 2 * DedupEpsilon

Ramp(n) == [i \in 1..n |-> Rec(<<"h","i">>, (i - 1) * RampStep,
                                   (i - 1) * RampStep + DedupEpsilon)]

\* 75 hits, more than a search returns
Overflow == Ramp(MaxResults + 25)

Transcripts ==
    FreeForm \cup {Scenario, SameBucket, NearPair, Chain, TieBucket, Unordered}
             \cup {Overflow}

\* what the user types into a search box
Queries == { <<>>,
             <<" "," ">>,
             <<" ","H","I"," ">>,
             <<"p","e","r","s","o","n">> }

\* ------------------------------------------------------------------------
\* Search (TranscriptionTab.handleSearch, AudioAnalyzer.handleSearchWord)
\* ------------------------------------------------------------------------

\* slice had the result not been cut
slice_all(s, n) == s

\* matches.slice(0, 50)
slice(s, n) == IF Len(s) <= n THEN s ELSE SubSeq(s, 1, n)

\* Array.prototype.filter: keeps the elements s[i] with Keep(s[i], i), in
\* order
filter(s, Keep(_, _)) ==
    LET entries == [i \in 1..Len(s) |-> [element |-> s[i], index |-> i]]
        kept    == SelectSeq(entries, LAMBDA e : Keep(e.element, e.index))
    IN [k \in 1..Len(kept) |-> kept[k].element]

\* seenTimes had the loop keyed the set by wordInfo.end.toFixed(1)
seenTimes_byEnd(ts, term, i) ==
    { toFixed1(ts[j].end) :
          j \in {k \in 1..(i - 1) : includes(toLowerCase(ts[k].word), term)} }

\* seenTimes of handleSearch when its forEach loop reaches record i: the
\* loop adds the toFixed(1) key of a word that includes the term the first
\* time it meets the key, so the set holds the key of every such word
\* before i
seenTimes(ts, term, i) ==
    { toFixed1(ts[j].start) :
          j \in {k \in 1..(i - 1) : includes(toLowerCase(ts[k].word), term)} }

\* matches had the loop pushed the callback's 0-based index
matchesPushed_zeroBased(ts, term) ==
    LET entry(i) == [word |-> ts[i].word, start |-> ts[i].start,
                     end |-> ts[i].end, index |-> i - 1]
        entries == [i \in 1..Len(ts) |-> entry(i)]
        pushed(e, i) == /\ includes(toLowerCase(e.word), term)
                        /\ toFixed1(e.start) \notin seenTimes(ts, term, i)
    IN filter(entries, pushed)

\* matches of handleSearch after the forEach loop; the callback's index is
\* 0-based, so index + 1 is the 1-based position i
matchesPushed(ts, term) ==
    LET entry(i) == [word |-> ts[i].word, start |-> ts[i].start,
                     end |-> ts[i].end, index |-> i]
        entries == [i \in 1..Len(ts) |-> entry(i)]
        pushed(e, i) == /\ includes(toLowerCase(e.word), term)
                        /\ toFixed1(e.start) \notin seenTimes(ts, term, i)
    IN filter(entries, pushed)

\* limitedMatches had the loop put each match in front (unshift)
limitedMatches_unshift(ts, term) ==
    LET matches == matchesPushed(ts, term)
        front   == [k \in 1..Len(matches) |-> matches[Len(matches) + 1 - k]]
    IN slice(front, MaxResults)

\* limitedMatches of handleSearch
limitedMatches(ts, term) == slice(matchesPushed(ts, term), MaxResults)

\* self.findIndex(m => Math.abs(m.start - start) < 0.1), 1-based; 0 stands
\* for the -1 of "not found"
findIndex(self, start) ==
    IF \E j \in 1..Len(self) : Near(self[j].start, start)
    THEN CHOOSE j \in 1..Len(self) :
             /\ Near(self[j].start, start)
             /\ \A k \in 1..(j - 1) : ~Near(self[k].start, start)
    ELSE 0

\* matches had the filter compared the word in its original casing
matchesOf_caseSensitive(ts, term) ==
    LET hit(wordInfo, index) == includes(wordInfo.word, term)
    IN filter(ts, hit)

\* matches of handleSearchWord
matchesOf(ts, term) ==
    LET hit(wordInfo, index) == includes(toLowerCase(wordInfo.word), term)
    IN filter(ts, hit)

\* uniqueMatches had the filter kept every match
uniqueMatches_all(matches) == matches

\* uniqueMatches of handleSearchWord
uniqueMatches(matches) ==
    LET first(match, index) == index = findIndex(matches, match.start)
    IN filter(matches, first)

\* ------------------------------------------------------------------------
\* Numeric form fields
\* ------------------------------------------------------------------------

\* what a start/end number field can hold: the empty string of a cleared or
\* invalid field, and decimal numbers
TimeInputs == {"", "-1", "0", "3.0", "5", "9.3", "10", "10.001"}

\* parseFloat, in milliseconds
parseFloat(s) ==
    CASE s = ""       -> NaN
      [] s = "-1"     -> -1000
      [] s = "0"      -> 0
      [] s = "3.0"    -> 3000
      [] s = "5"      -> 5000
      [] s = "9.3"    -> 9300
      [] s = "10"     -> 10000
      [] s = "10.001" -> 10001

\* isNaN
isNaN(x) == x = NaN

\* x || 0 on a number: NaN and 0 are falsy
orZero(x) == IF isNaN(x) \/ x = 0 THEN 0 ELSE x

\* x || null on a number or undefined
orNull(x) == IF x = Null \/ isNaN(x) \/ x = 0 THEN Null ELSE x

\* Number.prototype.toString of a duration
toString(d) ==
    CASE d = 0     -> "0"
      [] d = 9300  -> "9.3"
      [] d = 10000 -> "10"

\* the audio assets (blob URLs) the user can pick; a0 has no audio frames
Assets == {"blob:a0", "blob:a1", "blob:a2"}

\* the audioDuration a transcription response reports (Null: none)
ResponseDurations == {Null, 9300}

\* data.text of a response, as the sequence of its words
TextOf(ts) == [i \in 1..Len(ts) |-> ts[i].word]

\* the JSON bodies an OK transcription response can carry
Responses ==
    { [text |-> TextOf(ts), hasWordTimestamps |-> TRUE,
       wordTimestamps |-> ts, audioDuration |-> d] :
          ts \in Transcripts, d \in ResponseDurations }
    \cup { [text |-> << <<"h","i">> >>, hasWordTimestamps |-> FALSE,
            wordTimestamps |-> <<>>, audioDuration |-> Null] }

\* ------------------------------------------------------------------------
\* State
\* ------------------------------------------------------------------------

VARIABLES
    \* AudioAnalyzerState
    audioFilePath, modelLoaded, transcribedText, isTranscribing, error,
    useFullAudio, startTime, endTime, audioDuration,
    wordTimestamps, searchTerm, searchResults,
    \* AudioAnalyzer
    isNewAudioDialogOpen,
    \* the bodies of the /api/transcribe requests of the handleTranscribe
    \* calls that have not returned yet
    request,
    \* AudioAnalyzerState: the status line and the progress bar
    status, progress,
    \* the number of pending setTimeout callbacks that reset progress
    timers,
    \* AudioAnalyzerState: LLM processing and its history
    isProcessing, processHistory, currentHistoryIndex,
    \* the LLM calls that have not returned yet, each with the processHistory
    \* of the render it was started in
    llm,
    \* which TranscriptionTab the build renders: "box" has its own search box
    \* and handleSearch, "form" calls AudioAnalyzer.handleSearchWord
    tab,
    \* TranscriptionTab ("box")
    localSearchTerm,
    \* NewAudioDialog
    localAudioFile, localModelLoaded,
    dlgUseFullAudio, dlgStartTime, dlgEndTime, dlgAudioDuration,
    \* the Audio elements whose loadedmetadata event is still to come
    probes,
    \* NewAudioDialog: the Whisper model chosen in the Select
    localWhisperModel,
    \* the fetches of /api/model that have not returned to the dialog yet
    modelCalls,
    \* the file that serves /api/model: "part_012" keeps one Whisper process,
    \* "route.ts" runs a Python script per request
    modelRoute,
    \* part_012: the module variables whisperProcess (the model the held
    \* process was spawned with, or "null"), modelLoaded and currentModel
    whisperProcess, serverModelLoaded, currentModel,
    \* the Whisper processes spawned and not killed, counted per model
    running,
    \* route.ts: the models whose file is in the download cache of whisper
    cache,
    \* the model of the latest load the server completed, or "null"
    lastLoad,
    \* /api/latex: the compilations under way
    latex,
    \* the file that serves /api/transcribe, and the requests it is handling
    transcribeRoute, routeCalls

segmentVars == <<useFullAudio, startTime, endTime, audioDuration>>
searchVars  == <<wordTimestamps, searchTerm, searchResults>>
processVars == <<isProcessing, processHistory, currentHistoryIndex, llm>>
mainVars    == <<audioFilePath, modelLoaded, transcribedText, isTranscribing,
                 error, request, status, progress, timers, processVars>>
dialogVars  == <<localAudioFile, localModelLoaded, dlgUseFullAudio,
                 dlgStartTime, dlgEndTime, dlgAudioDuration, probes>>

tabVars     == <<tab, localSearchTerm>>
serverVars  == <<modelRoute, whisperProcess, serverModelLoaded, currentModel,
                 running, cache, lastLoad>>
modelVars   == <<localWhisperModel, modelCalls, serverVars>>
apiVars     == <<modelVars, latex, transcribeRoute, routeCalls>>

vars == <<mainVars, segmentVars, searchVars, isNewAudioDialogOpen, tabVars,
          dialogVars, apiVars>>

\* useState of AudioAnalyzer and of TranscriptionTab
InitMain ==
    /\ audioFilePath = NoFile
    /\ modelLoaded = FALSE
    /\ transcribedText = <<>>
    /\ isTranscribing = FALSE
    /\ error = "null"
    /\ useFullAudio = TRUE
    /\ startTime = 0
    /\ endTime = 0
    /\ audioDuration = Null
    /\ wordTimestamps = <<>>
    /\ searchTerm = <<>>
    /\ searchResults = <<>>
    /\ tab \in {"box", "form"}
    /\ localSearchTerm = <<>>
    /\ request = <<>>
    /\ status = "Ready"
    /\ progress = 0
    /\ timers = 0
    /\ isProcessing = FALSE
    /\ processHistory = <<>>
    /\ currentHistoryIndex = -1
    /\ llm = <<>>

\* the Whisper models of the Select that the analysis uses
Models == {"base", "small"}

\* useState("base") of NewAudioDialog and the module variables of part_012;
\* no Whisper process runs and no model file was downloaded
InitServer ==
    /\ localWhisperModel = "base"
    /\ whisperProcess = "null"
    /\ serverModelLoaded = FALSE
    /\ currentModel = "base"
    /\ running = [m \in Models |-> 0]
    /\ cache = {}
    /\ lastLoad = "null"

\* no request is under way at any API route
InitIdle ==
    /\ InitServer
    /\ modelCalls = {}
    /\ modelRoute = "route.ts"
    /\ latex = <<>>
    /\ transcribeRoute = "route.ts"
    /\ routeCalls = <<>>

\* useState of NewAudioDialog
InitDialog ==
    /\ localAudioFile = NoFile
    /\ localModelLoaded = FALSE
    /\ dlgUseFullAudio = TRUE
    /\ dlgStartTime = "0"
    /\ dlgEndTime = "0"
    /\ dlgAudioDuration = Null
    /\ probes = {}

\* duration that the Audio element of an asset reports at loadedmetadata
DurationOf(a) ==
    CASE a = "blob:a0" -> 0
      [] a = "blob:a1" -> 9300
      [] a = "blob:a2" -> 10000

\* the dialog as the user leaves it to press Create: a file is selected, its
\* duration probe has completed and the model was reported loaded
InitDialogReady ==
    \E a \in {"blob:a1"} :
        /\ localAudioFile = a
        /\ localModelLoaded = TRUE
        /\ dlgUseFullAudio = TRUE
        /\ dlgStartTime = "0"
        /\ dlgEndTime = toString(DurationOf(a))
        /\ dlgAudioDuration = DurationOf(a)
        /\ probes = {}

\* ------------------------------------------------------------------------
\* NewAudioDialog
\* ------------------------------------------------------------------------

\* handleFileSelect: the listener keeps the useFullAudio of this render
handleFileSelect(a) ==
    /\ isNewAudioDialogOpen
    /\ localAudioFile' = a
    /\ probes' = probes \cup {[asset |-> a, useFullAudio |-> dlgUseFullAudio]}
    /\ UNCHANGED <<localModelLoaded, dlgUseFullAudio, dlgStartTime, dlgEndTime,
                   dlgAudioDuration>>
    /\ UNCHANGED <<mainVars, segmentVars, searchVars, isNewAudioDialogOpen,
                   tabVars, apiVars>>

\* the loadedmetadata listener of handleFileSelect
loadedmetadata(p) ==
    /\ p \in probes
    /\ probes' = probes \ {p}
    /\ dlgAudioDuration' = DurationOf(p.asset)
    /\ dlgEndTime' = IF p.useFullAudio THEN toString(DurationOf(p.asset))
                     ELSE dlgEndTime
    /\ UNCHANGED <<localAudioFile, localModelLoaded, dlgUseFullAudio,
                   dlgStartTime>>
    /\ UNCHANGED <<mainVars, segmentVars, searchVars, isNewAudioDialogOpen,
                   tabVars, apiVars>>

\* the blob URLs of the recordings taken in the dialog
Recordings == {"blob:r1"}

\* mediaRecorder.onstop of a recording started in the dialog: the recording
\* becomes the file of the dialog
onstop(url) ==
    /\ isNewAudioDialogOpen
    /\ localAudioFile' = url
    /\ UNCHANGED <<localModelLoaded, dlgUseFullAudio, dlgStartTime, dlgEndTime,
                   dlgAudioDuration, probes>>
    /\ UNCHANGED <<mainVars, segmentVars, searchVars, isNewAudioDialogOpen,
                   tabVars, apiVars>>

\* the result of checkModelStatus, or of loadModel, arrives
checkModelStatus(loaded) ==
    /\ isNewAudioDialogOpen
    /\ localModelLoaded' = loaded
    /\ UNCHANGED <<localAudioFile, dlgUseFullAudio, dlgStartTime, dlgEndTime,
                   dlgAudioDuration, probes>>
    /\ UNCHANGED <<mainVars, segmentVars, searchVars, isNewAudioDialogOpen,
                   tabVars, apiVars>>

\* the Cancel button: onOpenChange(false)
cancel ==
    /\ isNewAudioDialogOpen
    /\ isNewAudioDialogOpen' = FALSE
    /\ UNCHANGED <<mainVars, segmentVars, searchVars, tabVars, apiVars, dialogVars>>

\* the time segment controls are rendered once a file is present
segmentControlsShown == isNewAudioDialogOpen /\ localAudioFile # NoFile

\* handleUseFullAudioChange(checked); audioDuration is tested for truthiness
handleUseFullAudioChange(checked) ==
    /\ segmentControlsShown
    /\ checked = ~dlgUseFullAudio
    /\ dlgUseFullAudio' = checked
    /\ IF checked /\ orNull(dlgAudioDuration) # Null
       THEN /\ dlgStartTime' = "0"
            /\ dlgEndTime' = toString(dlgAudioDuration)
       ELSE UNCHANGED <<dlgStartTime, dlgEndTime>>
    /\ UNCHANGED <<localAudioFile, localModelLoaded, dlgAudioDuration, probes>>
    /\ UNCHANGED <<mainVars, segmentVars, searchVars, isNewAudioDialogOpen,
                   tabVars, apiVars>>

\* handleTimeChange(field, value); the two fields are rendered only while
\* useFullAudio is false
handleTimeChange(field, value) ==
    /\ segmentControlsShown
    /\ ~dlgUseFullAudio
    /\ IF field = "start"
       THEN dlgStartTime' = value /\ UNCHANGED dlgEndTime
       ELSE dlgEndTime' = value /\ UNCHANGED dlgStartTime
    /\ dlgUseFullAudio' = IF dlgUseFullAudio THEN FALSE ELSE dlgUseFullAudio
    /\ UNCHANGED <<localAudioFile, localModelLoaded, dlgAudioDuration, probes>>
    /\ UNCHANGED <<mainVars, segmentVars, searchVars, isNewAudioDialogOpen,
                   tabVars, apiVars>>

\* validateTimeSegment
validateTimeSegment ==
    IF dlgUseFullAudio THEN TRUE
    ELSE LET start == parseFloat(dlgStartTime)
             end   == parseFloat(dlgEndTime)
         IN IF isNaN(start) \/ isNaN(end) THEN FALSE
            ELSE IF start < 0 \/ end <= start THEN FALSE
            ELSE IF orNull(dlgAudioDuration) # Null /\ end > dlgAudioDuration
                 THEN FALSE
            ELSE TRUE

canCreate == localAudioFile # NoFile /\ localModelLoaded

\* handleCreate
handleCreate ==
    /\ isNewAudioDialogOpen
    /\ canCreate
    /\ audioFilePath' = localAudioFile
    /\ modelLoaded' = localModelLoaded
    /\ transcribedText' = <<>>
    /\ useFullAudio' = dlgUseFullAudio
    /\ startTime' = orZero(parseFloat(dlgStartTime))
    /\ endTime' = orZero(parseFloat(dlgEndTime))
    /\ audioDuration' = dlgAudioDuration
    /\ wordTimestamps' = <<>>
    /\ searchTerm' = <<>>
    /\ searchResults' = <<>>
    /\ status' = "Ready to transcribe"
    /\ processHistory' = <<>>
    /\ currentHistoryIndex' = -1
    /\ isNewAudioDialogOpen' = FALSE
    /\ UNCHANGED <<isTranscribing, error, request, progress, timers,
                   isProcessing, llm, tabVars, apiVars, dialogVars>>

\* ------------------------------------------------------------------------
\* AudioAnalyzer: transcription
\* ------------------------------------------------------------------------

\* the New Audio buttons: setIsNewAudioDialogOpen(true), followed by the
\* effect of the dialog that resets its local state when open becomes true
openNewAudioDialog ==
    /\ ~isNewAudioDialogOpen
    /\ isNewAudioDialogOpen' = TRUE
    /\ localAudioFile' = NoFile
    /\ localModelLoaded' = FALSE
    /\ UNCHANGED <<dlgUseFullAudio, dlgStartTime, dlgEndTime,
                   dlgAudioDuration, probes>>
    /\ UNCHANGED <<mainVars, segmentVars, searchVars, tabVars, apiVars>>

\* the main view is rendered behind the modal dialog
mainViewUsable == ~isNewAudioDialogOpen /\ audioFilePath # NoFile

canTranscribe == audioFilePath # NoFile /\ modelLoaded /\ ~isTranscribing

\* the body of the /api/transcribe request that handleTranscribe builds from
\* the state of the render it was called in; the AudioAnalyzer of the "box"
\* build sends no useFullAudio
body ==
    IF tab = "form"
    THEN [audioPath |-> audioFilePath, useFullAudio |-> useFullAudio,
          startTime |-> startTime, endTime |-> endTime]
    ELSE [audioPath |-> audioFilePath,
          startTime |-> startTime, endTime |-> endTime]

\* POST of /api/transcribe: the request body that transcribeWithWhisper
\* forwards to the Whisper server; a missing useFullAudio defaults to true
POST(b) ==
    [use_full_audio |-> IF "useFullAudio" \in DOMAIN b THEN b.useFullAudio
                        ELSE TRUE,
     start_time |-> b.startTime,
     end_time |-> b.endTime]

\* a click that clears the text on display
handleTranscribe_clearsText ==
    /\ mainViewUsable
    /\ canTranscribe
    /\ timers < MaxTimers
    /\ isTranscribing' = TRUE
    /\ progress' = 10
    /\ status' = "Transcribing audio..."
    /\ request' = Append(request, body)
    /\ transcribedText' = <<>>
    /\ UNCHANGED <<audioFilePath, modelLoaded, error, timers, processVars>>
    /\ UNCHANGED <<segmentVars, searchVars, isNewAudioDialogOpen, tabVars, apiVars,
                   dialogVars>>

\* handleTranscribe up to its first await; the request it sends after the
\* upload carries the state of this render
handleTranscribe ==
    /\ mainViewUsable
    /\ canTranscribe
    /\ timers < MaxTimers
    /\ isTranscribing' = TRUE
    /\ progress' = 10
    /\ status' = "Transcribing audio..."
    /\ request' = Append(request, body)
    /\ UNCHANGED <<audioFilePath, modelLoaded, transcribedText, error, timers,
                   processVars>>
    /\ UNCHANGED <<segmentVars, searchVars, isNewAudioDialogOpen, tabVars, apiVars,
                   dialogVars>>

\* a catch block that leaves the busy flag set
transcribeFailed_staysBusy ==
    /\ request # <<>>
    /\ request' = Tail(request)
    /\ progress' = 0
    /\ status' = "Transcription failed"
    /\ error' = "Transcription failed"
    /\ UNCHANGED <<audioFilePath, modelLoaded, transcribedText, isTranscribing,
                   timers, processVars>>
    /\ UNCHANGED <<segmentVars, searchVars, isNewAudioDialogOpen, tabVars, apiVars,
                   dialogVars>>

\* handleTranscribe from a rejected fetch or a response that is not ok on:
\* the catch block
transcribeFailed ==
    /\ request # <<>>
    /\ request' = Tail(request)
    /\ isTranscribing' = FALSE
    /\ progress' = 0
    /\ status' = "Transcription failed"
    /\ error' = "Transcription failed"
    /\ UNCHANGED <<audioFilePath, modelLoaded, transcribedText, timers,
                   processVars>>
    /\ UNCHANGED <<segmentVars, searchVars, isNewAudioDialogOpen, tabVars, apiVars,
                   dialogVars>>

\* data.wordTimestamps || []
orEmpty(data) == IF data.hasWordTimestamps THEN data.wordTimestamps ELSE <<>>

\* the wordTimestamps had handleTranscribe appended to the held sequence
installed_appended(held, data) == held \o orEmpty(data)

\* the wordTimestamps that handleTranscribe stores for a response
installed(held, data) == orEmpty(data)

\* handleTranscribe from an ok response with JSON body data on
transcribeDone(data) ==
    /\ request # <<>>
    /\ request' = Tail(request)
    /\ transcribedText' = data.text
    /\ wordTimestamps' = installed(wordTimestamps, data)
    /\ audioDuration' = IF tab = "form" THEN orNull(data.audioDuration)
                        ELSE audioDuration
    /\ isTranscribing' = FALSE
    /\ progress' = 100
    /\ status' = "Transcription completed"
    /\ error' = "null"
    /\ timers' = timers + 1
    /\ UNCHANGED processVars
    /\ UNCHANGED <<audioFilePath, modelLoaded, useFullAudio, startTime,
                   endTime, searchTerm, searchResults,
                   isNewAudioDialogOpen, tabVars, apiVars, dialogVars>>

\* ------------------------------------------------------------------------
\* AudioAnalyzer: time segment controls of the main view
\* ------------------------------------------------------------------------

\* the AudioAnalyzer of the "form" build renders the time segment controls
segmentControlsOfMainShown == mainViewUsable /\ tab = "form"

\* onChange of the "Use full audio" checkbox
onUseFullAudioChange(checked) ==
    /\ segmentControlsOfMainShown
    /\ checked = ~useFullAudio
    /\ useFullAudio' = checked
    /\ startTime' = 0
    /\ endTime' = IF orNull(audioDuration) # Null THEN audioDuration ELSE 0
    /\ UNCHANGED <<mainVars, audioDuration, searchVars, isNewAudioDialogOpen,
                   tabVars, apiVars, dialogVars>>

\* a start input that writes the end of the segment as well
onStartTimeChange_bothFields(value) ==
    /\ segmentControlsOfMainShown
    /\ ~useFullAudio
    /\ startTime' = orZero(parseFloat(value))
    /\ endTime' = orZero(parseFloat(value))
    /\ UNCHANGED <<mainVars, useFullAudio, audioDuration, searchVars,
                   isNewAudioDialogOpen, tabVars, apiVars, dialogVars>>

\* onChange of the start input, rendered while useFullAudio is false
onStartTimeChange(value) ==
    /\ segmentControlsOfMainShown
    /\ ~useFullAudio
    /\ startTime' = orZero(parseFloat(value))
    /\ UNCHANGED <<mainVars, useFullAudio, endTime, audioDuration, searchVars,
                   isNewAudioDialogOpen, tabVars, apiVars, dialogVars>>

\* onChange of the end input, rendered while useFullAudio is false
onEndTimeChange(value) ==
    /\ segmentControlsOfMainShown
    /\ ~useFullAudio
    /\ endTime' = orZero(parseFloat(value))
    /\ UNCHANGED <<mainVars, useFullAudio, startTime, audioDuration,
                   searchVars, isNewAudioDialogOpen, tabVars, apiVars, dialogVars>>

\* the callback of a setTimeout(..., 2000) that a completed operation
\* scheduled
timerFires ==
    /\ timers > 0
    /\ timers' = timers - 1
    /\ progress' = 0
    /\ UNCHANGED <<audioFilePath, modelLoaded, transcribedText, isTranscribing,
                   error, request, status, processVars>>
    /\ UNCHANGED <<segmentVars, searchVars, isNewAudioDialogOpen, tabVars, apiVars,
                   dialogVars>>

\* ------------------------------------------------------------------------
\* AudioAnalyzer and ProcessedResultTab: LLM processing
\* ------------------------------------------------------------------------

\* canProcess, with the API key that was entered in the dialog
canProcess == transcribedText # <<>> /\ ~isProcessing

\* the LLM handlers that write processHistory: handleSummarize and
\* handleCustomPrompt of AudioAnalyzer, processCustomPrompt of
\* ProcessedResultTab
Handlers == {"handleSummarize", "handleCustomPrompt", "processCustomPrompt"}

\* status of the handler while its call is in flight
statusStarted(handler) ==
    IF handler = "handleSummarize" THEN "Processing with Claude..."
    ELSE "Processing custom prompt..."

\* progress of the handler at its await; processCustomPrompt writes none
progressStarted(handler) ==
    CASE handler = "handleSummarize"     -> 60
      [] handler = "handleCustomPrompt"  -> 30
      [] handler = "processCustomPrompt" -> progress

\* status of the success branch of the handler
statusDone(handler) ==
    IF handler = "handleSummarize" THEN "Processing completed"
    ELSE "Custom prompt processed"

\* status of the catch block of the handler
statusFailed(handler) ==
    CASE handler = "handleSummarize"     -> "Processing failed"
      [] handler = "handleCustomPrompt"  -> "Custom prompt failed"
      [] handler = "processCustomPrompt" -> "Custom prompt processing failed"

\* an LLM handler up to its await
processStarted(handler) ==
    /\ mainViewUsable
    /\ canProcess
    /\ timers < MaxTimers
    /\ Len(processHistory) < MaxHistory
    /\ isProcessing' = TRUE
    /\ progress' = progressStarted(handler)
    /\ status' = statusStarted(handler)
    /\ llm' = Append(llm, [handler |-> handler,
                           processHistory |-> processHistory])
    /\ UNCHANGED <<audioFilePath, modelLoaded, transcribedText, isTranscribing,
                   error, request, timers, processHistory,
                   currentHistoryIndex>>
    /\ UNCHANGED <<segmentVars, searchVars, isNewAudioDialogOpen, tabVars, apiVars,
                   dialogVars>>

\* newHistory of a handler: the entry is appended to the processHistory of
\* the render the handler was started in
newHistory(call) ==
    Append(call.processHistory, [prompt |-> call.handler, result |-> "result"])

\* the success branch of an LLM handler
processDone ==
    /\ llm # <<>>
    /\ llm' = Tail(llm)
    /\ processHistory' = newHistory(Head(llm))
    /\ currentHistoryIndex' = Len(newHistory(Head(llm))) - 1
    /\ isProcessing' = FALSE
    /\ status' = statusDone(Head(llm).handler)
    /\ IF Head(llm).handler = "processCustomPrompt"
       THEN UNCHANGED <<progress, error, timers>>
       ELSE progress' = 100 /\ error' = "null" /\ timers' = timers + 1
    /\ UNCHANGED <<audioFilePath, modelLoaded, transcribedText, isTranscribing,
                   request>>
    /\ UNCHANGED <<segmentVars, searchVars, isNewAudioDialogOpen, tabVars, apiVars,
                   dialogVars>>

\* the catch block of an LLM handler
processFailed ==
    /\ llm # <<>>
    /\ llm' = Tail(llm)
    /\ isProcessing' = FALSE
    /\ status' = statusFailed(Head(llm).handler)
    /\ IF Head(llm).handler = "processCustomPrompt"
       THEN UNCHANGED <<progress, error>>
       ELSE progress' = 0 /\ error' = statusFailed(Head(llm).handler)
    /\ UNCHANGED <<audioFilePath, modelLoaded, transcribedText, isTranscribing,
                   request, timers, processHistory, currentHistoryIndex>>
    /\ UNCHANGED <<segmentVars, searchVars, isNewAudioDialogOpen, tabVars, apiVars,
                   dialogVars>>

\* navigatePrev of ProcessedResultTab
navigatePrev ==
    /\ mainViewUsable
    /\ currentHistoryIndex > 0
    /\ currentHistoryIndex' = currentHistoryIndex - 1
    /\ UNCHANGED <<audioFilePath, modelLoaded, transcribedText, isTranscribing,
                   error, request, status, progress, timers, isProcessing,
                   processHistory, llm>>
    /\ UNCHANGED <<segmentVars, searchVars, isNewAudioDialogOpen, tabVars, apiVars,
                   dialogVars>>

\* navigateNext of ProcessedResultTab
navigateNext ==
    /\ mainViewUsable
    /\ currentHistoryIndex < Len(processHistory) - 1
    /\ currentHistoryIndex' = currentHistoryIndex + 1
    /\ UNCHANGED <<audioFilePath, modelLoaded, transcribedText, isTranscribing,
                   error, request, status, progress, timers, isProcessing,
                   processHistory, llm>>
    /\ UNCHANGED <<segmentVars, searchVars, isNewAudioDialogOpen, tabVars, apiVars,
                   dialogVars>>

\* clearAll of ToolbarButtons, after the user confirmed
clearAll ==
    /\ mainViewUsable
    /\ transcribedText' = <<>>
    /\ audioFilePath' = NoFile
    /\ status' = "Cleared all content"
    /\ processHistory' = <<>>
    /\ currentHistoryIndex' = -1
    /\ UNCHANGED <<modelLoaded, isTranscribing, error, request, progress,
                   timers, isProcessing, llm>>
    /\ UNCHANGED <<segmentVars, searchVars, isNewAudioDialogOpen, tabVars, apiVars,
                   dialogVars>>

\* ------------------------------------------------------------------------
\* TranscriptionTab with its own search box (handleSearch)
\* ------------------------------------------------------------------------

searchBoxShown == mainViewUsable /\ tab = "box"

\* onChange of the search box
setLocalSearchTerm(q) ==
    /\ searchBoxShown
    /\ localSearchTerm' = q
    /\ UNCHANGED <<mainVars, segmentVars, searchVars, isNewAudioDialogOpen,
                   tab, apiVars, dialogVars>>

\* handleSearch had its two early returns left the results as they were
handleSearch_keepsResults ==
    /\ searchBoxShown
    /\ UNCHANGED <<mainVars, segmentVars, wordTimestamps, isNewAudioDialogOpen,
                   tabVars, apiVars, dialogVars>>
    /\ LET term == toLowerCase(trim(localSearchTerm))
       IN IF term = <<>>
          THEN UNCHANGED <<searchResults, searchTerm>>
          ELSE IF Len(wordTimestamps) = 0
          THEN searchTerm' = term /\ UNCHANGED searchResults
          ELSE /\ searchResults' = limitedMatches(wordTimestamps, term)
               /\ searchTerm' = term

\* handleSearch
handleSearch ==
    /\ searchBoxShown
    /\ UNCHANGED <<mainVars, segmentVars, wordTimestamps, isNewAudioDialogOpen,
                   tabVars, apiVars, dialogVars>>
    /\ LET term == toLowerCase(trim(localSearchTerm))
       IN IF term = <<>>
          THEN searchResults' = <<>> /\ searchTerm' = <<>>
          ELSE IF Len(wordTimestamps) = 0
          THEN searchTerm' = term /\ searchResults' = <<>>
          ELSE /\ searchResults' = limitedMatches(wordTimestamps, term)
               /\ searchTerm' = term

\* clearSearch had it dropped the word timestamps with the results
clearSearch_clearsAll ==
    /\ searchBoxShown
    /\ localSearchTerm' = <<>>
    /\ searchResults' = <<>>
    /\ searchTerm' = <<>>
    /\ wordTimestamps' = <<>>
    /\ UNCHANGED <<mainVars, segmentVars, isNewAudioDialogOpen, tab, apiVars,
                   dialogVars>>

\* clearSearch of that tab
clearSearch ==
    /\ searchBoxShown
    /\ localSearchTerm' = <<>>
    /\ searchResults' = <<>>
    /\ searchTerm' = <<>>
    /\ UNCHANGED <<mainVars, segmentVars, wordTimestamps, isNewAudioDialogOpen,
                   tab, apiVars, dialogVars>>

\* ------------------------------------------------------------------------
\* TranscriptionTab with the search form (onSearchWord = handleSearchWord)
\* ------------------------------------------------------------------------

\* the form is rendered while there are word timestamps
searchFormShown == mainViewUsable /\ tab = "form" /\ Len(wordTimestamps) > 0

\* onChange of the form's input
setSearchTerm(q) ==
    /\ searchFormShown
    /\ searchTerm' = q
    /\ UNCHANGED <<mainVars, segmentVars, wordTimestamps, searchResults,
                   isNewAudioDialogOpen, tabVars, apiVars, dialogVars>>

\* handleSearchWord
handleSearchWord ==
    /\ searchFormShown
    /\ UNCHANGED <<mainVars, segmentVars, wordTimestamps, searchTerm,
                   isNewAudioDialogOpen, tabVars, apiVars, dialogVars>>
    /\ IF trim(searchTerm) = <<>> \/ Len(wordTimestamps) = 0
       THEN searchResults' = <<>>
       ELSE LET term == trim(toLowerCase(searchTerm))
            IN searchResults' =
                   slice(uniqueMatches(matchesOf(wordTimestamps, term)),
                         MaxResults)

\* clearSearch of the form; the button is rendered while searchTerm is set
clearSearchForm ==
    /\ searchFormShown
    /\ searchTerm # <<>>
    /\ searchTerm' = <<>>
    /\ searchResults' = <<>>
    /\ UNCHANGED <<mainVars, segmentVars, wordTimestamps, isNewAudioDialogOpen,
                   tabVars, apiVars, dialogVars>>

\* ------------------------------------------------------------------------
\* The Whisper model: NewAudioDialog and the route /api/model
\* ------------------------------------------------------------------------

\* fetch of /api/model: GET with ?model=, POST with the model in the body
fetchModel(method, model) ==
    [method |-> method, model |-> model, stage |-> "sent", ok |-> FALSE,
     loaded |-> FALSE]

\* the response to the call c: response.ok and data.loaded
answered(c, ok, loaded) ==
    [c EXCEPT !.stage = "answered", !.ok = ok, !.loaded = loaded]

\* handleModelChange, and the effect on [localWhisperModel, open] that calls
\* checkModelStatus for the new model
handleModelChange(value) ==
    /\ isNewAudioDialogOpen
    /\ value # localWhisperModel
    /\ Cardinality(modelCalls) < MaxCalls
    /\ localWhisperModel' = value
    /\ localModelLoaded' = FALSE
    /\ modelCalls' = modelCalls \cup {fetchModel("GET", value)}
    /\ UNCHANGED <<serverVars, latex, transcribeRoute, routeCalls>>
    /\ UNCHANGED <<localAudioFile, dlgUseFullAudio, dlgStartTime, dlgEndTime,
                   dlgAudioDuration, probes>>
    /\ UNCHANGED <<mainVars, segmentVars, searchVars, isNewAudioDialogOpen,
                   tabVars>>

\* the Load Model button, shown while the model is not loaded: loadModel up
\* to its fetch
loadModel ==
    /\ isNewAudioDialogOpen
    /\ ~localModelLoaded
    /\ Cardinality(modelCalls) < MaxCalls
    /\ localModelLoaded' = FALSE
    /\ modelCalls' = modelCalls \cup {fetchModel("POST", localWhisperModel)}
    /\ UNCHANGED <<localWhisperModel, serverVars, latex, transcribeRoute,
                   routeCalls>>
    /\ UNCHANGED <<localAudioFile, dlgUseFullAudio, dlgStartTime, dlgEndTime,
                   dlgAudioDuration, probes>>
    /\ UNCHANGED <<mainVars, segmentVars, searchVars, isNewAudioDialogOpen,
                   tabVars>>

\* checkModelStatus and loadModel after their fetch: the response sets
\* localModelLoaded, whatever model is selected by now
modelFetchReturns(c) ==
    /\ c \in modelCalls
    /\ c.stage = "answered"
    /\ modelCalls' = modelCalls \ {c}
    /\ localModelLoaded' = (c.ok /\ c.loaded)
    /\ UNCHANGED <<localWhisperModel, serverVars, latex, transcribeRoute,
                   routeCalls>>
    /\ UNCHANGED <<localAudioFile, dlgUseFullAudio, dlgStartTime, dlgEndTime,
                   dlgAudioDuration, probes>>
    /\ UNCHANGED <<mainVars, segmentVars, searchVars, isNewAudioDialogOpen,
                   tabVars>>

\* the client side and the other routes, which the route /api/model leaves
\* alone
besideServer ==
    <<localWhisperModel, latex, transcribeRoute, routeCalls, mainVars,
      segmentVars, searchVars, isNewAudioDialogOpen, tabVars, dialogVars>>

\* startWhisperProcess of part_012: nothing to do for the model of the held
\* process; otherwise the held process is killed and one for the model is
\* spawned, unless spawn throws
startWhisperProcess(model, spawnThrows) ==
    IF whisperProcess # "null" /\ currentModel = model
    THEN /\ lastLoad' = model
         /\ UNCHANGED <<whisperProcess, serverModelLoaded, currentModel,
                        running>>
    ELSE LET killed == IF whisperProcess # "null"
                       THEN [running EXCEPT ![whisperProcess] = @ - 1]
                       ELSE running
         IN  IF spawnThrows
             THEN /\ whisperProcess' = "null"
                  /\ serverModelLoaded' = IF whisperProcess # "null"
                                          THEN FALSE ELSE serverModelLoaded
                  /\ running' = killed
                  /\ UNCHANGED <<currentModel, lastLoad>>
             ELSE /\ whisperProcess' = model
                  /\ running' = [killed EXCEPT ![model] = @ + 1]
                  /\ currentModel' = model
                  /\ serverModelLoaded' = TRUE
                  /\ lastLoad' = model

\* data.loaded of GET /api/model?model=: part_012 answers from its module
\* variables, checkModelStatus of route.ts from the download cache
GET(model) ==
    IF modelRoute = "part_012"
    THEN serverModelLoaded /\ currentModel = model
    ELSE model \in cache

\* the route handles a GET; the Python script of route.ts may fail, and the
\* response then has no loaded field
modelGET(c, fails) ==
    /\ c \in modelCalls
    /\ c.method = "GET"
    /\ c.stage = "sent"
    /\ fails => modelRoute = "route.ts"
    /\ modelCalls' = (modelCalls \ {c})
                          \cup {answered(c, TRUE, GET(c.model) /\ ~fails)}
    /\ UNCHANGED <<serverVars, besideServer>>

\* the route handles a POST: part_012 starts the process and waits 500 ms,
\* route.ts runs whisper.load_model in a script, which downloads the model
\* file; a failure is answered with status 500
modelPOST(c, fails) ==
    /\ c \in modelCalls
    /\ c.method = "POST"
    /\ c.stage = "sent"
    /\ IF modelRoute = "part_012"
       THEN /\ startWhisperProcess(c.model, fails)
            /\ modelCalls' =
                   (modelCalls \ {c})
                       \cup {IF fails THEN answered(c, FALSE, FALSE)
                             ELSE [c EXCEPT !.stage = "waiting"]}
            /\ UNCHANGED cache
       ELSE /\ cache' = IF fails THEN cache ELSE cache \cup {c.model}
            /\ lastLoad' = IF fails THEN lastLoad ELSE c.model
            /\ modelCalls' = (modelCalls \ {c})
                                  \cup {answered(c, ~fails, ~fails)}
            /\ UNCHANGED <<whisperProcess, serverModelLoaded, currentModel,
                           running>>
    /\ UNCHANGED <<modelRoute, besideServer>>

\* POST of part_012 after its wait: the module variables are read again
modelPOSTwaited(c) ==
    /\ c \in modelCalls
    /\ c.stage = "waiting"
    /\ LET ok == serverModelLoaded /\ currentModel = c.model
       IN  modelCalls' = (modelCalls \ {c}) \cup {answered(c, ok, ok)}
    /\ UNCHANGED <<serverVars, besideServer>>

\* ------------------------------------------------------------------------
\* The route /api/latex
\* ------------------------------------------------------------------------

\* everything but the compilations
besideLatex ==
    <<modelVars, transcribeRoute, routeCalls, mainVars, segmentVars,
      searchVars, isNewAudioDialogOpen, tabVars, dialogVars>>

\* what pdflatex writes into the output directory
Outputs(pdf) ==
    IF pdf THEN {"document.pdf", "document.log", "document.aux"}
    ELSE {"document.log"}

\* POST of /api/latex up to the await of compileToPdf: without content the
\* answer is 400, otherwise document.tex is written to a temp directory and
\* compileToPdf spawns the first pdflatex
latexPOST(latexContent) ==
    /\ Len(latex) < MaxJobs
    /\ latex' = Append(latex,
                    IF latexContent = ""
                    THEN [pc |-> "done", first |-> "idle", second |-> "idle",
                          resolved |-> "pending", files |-> {},
                          read |-> FALSE, cleaned |-> FALSE, status |-> 400]
                    ELSE [pc |-> "compiling", first |-> "running",
                          second |-> "idle", resolved |-> "pending",
                          files |-> {"document.tex"}, read |-> FALSE,
                          cleaned |-> FALSE, status |-> 0])
    /\ UNCHANGED besideLatex

\* resolve of the promise of compileToPdf: only the first call settles it
resolve(job, result) ==
    IF job.resolved = "pending" THEN result ELSE job.resolved

\* the result the close listeners compute from existsSync(pdfPath)
pdfResult(files) ==
    IF "document.pdf" \in files THEN "success" ELSE "failure"

\* 'close' of the first pdflatex: both listeners run, in the order they were
\* registered; the first resolves the promise, the second spawns the second
\* pass when the exit code is 0
firstPassCloses(j, code, pdf) ==
    /\ j \in DOMAIN latex
    /\ latex[j].first = "running"
    /\ LET job   == latex[j]
           files == job.files \cup Outputs(pdf)
       IN  latex' = [latex EXCEPT ![j] =
                        [job EXCEPT
                            !.first = "closed",
                            !.files = files,
                            !.resolved =
                                resolve(job, IF code # 0 THEN "failure"
                                             ELSE pdfResult(files)),
                            !.second = IF code = 0 THEN "running"
                                       ELSE "idle"]]
    /\ UNCHANGED besideLatex

\* 'error' of the first pdflatex: it could not be started
firstPassError(j) ==
    /\ j \in DOMAIN latex
    /\ latex[j].first = "running"
    /\ latex' = [latex EXCEPT ![j] =
                    [@ EXCEPT !.first = "error",
                              !.resolved = resolve(latex[j], "failure")]]
    /\ UNCHANGED besideLatex

\* 'close' of the second pdflatex, which has written its output again
secondPassCloses(j, pdf) ==
    /\ j \in DOMAIN latex
    /\ latex[j].second = "running"
    /\ LET job   == latex[j]
           files == job.files \cup Outputs(pdf)
       IN  latex' = [latex EXCEPT ![j] =
                        [job EXCEPT
                            !.second = "closed",
                            !.files = files,
                            !.resolved = resolve(job, pdfResult(files))]]
    /\ UNCHANGED besideLatex

\* 'error' of the second pdflatex
secondPassError(j) ==
    /\ j \in DOMAIN latex
    /\ latex[j].second = "running"
    /\ latex' = [latex EXCEPT ![j] =
                    [@ EXCEPT !.second = "error",
                              !.resolved =
                                  resolve(latex[j], pdfResult(latex[j].files))]]
    /\ UNCHANGED besideLatex

\* POST of /api/latex after the await of compileToPdf: on success
\* document.pdf is read and answered, otherwise the answer is 500; the
\* finally block then unlinks the four files of the temp directory
latexResumes(j) ==
    /\ j \in DOMAIN latex
    /\ latex[j].pc = "compiling"
    /\ latex[j].resolved # "pending"
    /\ LET job == latex[j]
           ok  == job.resolved = "success" /\ "document.pdf" \in job.files
       IN  latex' = [latex EXCEPT ![j] =
                        [job EXCEPT !.pc = "done",
                                    !.read = ok,
                                    !.status = IF ok THEN 200 ELSE 500,
                                    !.files = {},
                                    !.cleaned = TRUE]]
    /\ UNCHANGED besideLatex

\* ------------------------------------------------------------------------
\* The route /api/transcribe
\* ------------------------------------------------------------------------

\* a field that the JSON body of a request does not have
Undefined == "undefined"

\* everything but the requests at the route
besideRoute ==
    <<modelVars, latex, transcribeRoute, mainVars, segmentVars, searchVars,
      isNewAudioDialogOpen, tabVars, dialogVars>>

\* the checks of part_015 before the Whisper server is contacted; route.ts
\* has none
rejected(audioPath, model) ==
    transcribeRoute = "part_015" /\ (audioPath = Undefined \/ model = Undefined)

\* POST of /api/transcribe up to the fetch of transcribeWithWhisper
transcribePOST(audioPath, model) ==
    /\ Len(routeCalls) < MaxRequests
    /\ routeCalls' =
           Append(routeCalls,
                  IF rejected(audioPath, model)
                  THEN [audioPath |-> audioPath, model |-> model,
                        contacted |-> FALSE, outcome |-> "none",
                        status |-> 400]
                  ELSE [audioPath |-> audioPath, model |-> model,
                        contacted |-> TRUE, outcome |-> "none",
                        status |-> 0])
    /\ UNCHANGED besideRoute

\* what the fetch of the Whisper server yields: JSON of a transcription,
\* JSON with an error field, text that is not JSON, or a rejected fetch
Outcomes == {"transcription", "error", "no JSON", "rejected"}

\* the status of the answer: part_015 answers 500 when the result has an
\* error field; route.ts answers NextResponse.json(result) with the default
\* status, and a rejected fetch is an exception of its handler
statusOf(outcome) ==
    IF transcribeRoute = "part_015"
    THEN IF outcome = "transcription" THEN 200 ELSE 500
    ELSE IF outcome = "rejected" THEN 500 ELSE 200

\* POST of /api/transcribe after the await of transcribeWithWhisper
whisperReturns(i, outcome) ==
    /\ i \in DOMAIN routeCalls
    /\ routeCalls[i].contacted
    /\ routeCalls[i].status = 0
    /\ routeCalls' = [routeCalls EXCEPT ![i] =
                         [@ EXCEPT !.outcome = outcome,
                                   !.status = statusOf(outcome)]]
    /\ UNCHANGED besideRoute

\* ------------------------------------------------------------------------
\* Specifications
\* ------------------------------------------------------------------------

\* the analyzer with a dialog ready for Create
Init ==
    InitMain /\ isNewAudioDialogOpen = TRUE /\ InitDialogReady /\ InitIdle

\* searching in the transcripts of up to MaxTimers transcriptions; the
\* progress resets of the completed ones are still pending
Next ==
    \/ handleCreate
    \/ handleTranscribe
    \/ transcribeFailed
    \/ \E data \in Responses : transcribeDone(data)
    \/ \E checked \in BOOLEAN : onUseFullAudioChange(checked)
    \/ \E q \in Queries : setLocalSearchTerm(q)
    \/ handleSearch
    \/ clearSearch
    \/ \E q \in Queries : setSearchTerm(q)
    \/ handleSearchWord
    \/ clearSearchForm

Spec == Init /\ [][Next]_vars

\* the New Audio dialog, opened on the freshly constructed analyzer
InitDlg ==
    InitMain /\ isNewAudioDialogOpen = TRUE /\ InitDialog /\ InitIdle

NextDlg ==
    \/ \E a \in Assets : handleFileSelect(a)
    \/ \E p \in probes : loadedmetadata(p)
    \/ \E checked \in BOOLEAN : handleUseFullAudioChange(checked)
    \/ \E field \in {"start", "end"}, value \in TimeInputs :
           handleTimeChange(field, value)

SpecDialog == InitDlg /\ [][NextDlg]_vars

\* the word timestamps the Whisper server produces for an audio asset
TranscriptOf(a) ==
    CASE a = "blob:a1" -> SameBucket
      [] a = "blob:a2" -> NearPair
      [] a = "blob:r1" -> Scenario

\* the responses to the request r
ResponsesFor(r) ==
    {data \in Responses : data.wordTimestamps = TranscriptOf(r.audioPath)}

\* the files the user picks for a second analysis
SecondFiles == {"blob:a2"}

\* replacing the audio: while the first analysis runs, the dialog is opened
\* again, a second file is selected or recorded, and created
NextReplace ==
    \/ handleCreate
    \/ handleTranscribe
    \/ transcribeFailed
    \/ \E data \in Responses :
           /\ request # <<>>
           /\ data \in ResponsesFor(Head(request))
           /\ transcribeDone(data)
    \/ openNewAudioDialog
    \/ cancel
    \/ \E loaded \in BOOLEAN : checkModelStatus(loaded)
    \/ \E a \in SecondFiles : handleFileSelect(a)
    \/ \E p \in probes : loadedmetadata(p)
    \/ \E url \in Recordings : onstop(url)
    \/ \E checked \in BOOLEAN : handleUseFullAudioChange(checked)

SpecReplace == Init /\ [][NextReplace]_vars

\* the responses to the transcriptions of a sentence and of a two-word
\* recording
ClearResponses ==
    {data \in Responses : data.wordTimestamps \in {Scenario, NearPair}}

\* searching, transcribing again and Clear All
NextClear ==
    \/ handleCreate
    \/ handleTranscribe
    \/ transcribeFailed
    \/ \E data \in ClearResponses : transcribeDone(data)
    \/ \E q \in Queries : setLocalSearchTerm(q)
    \/ handleSearch
    \/ clearSearch
    \/ \E q \in Queries : setSearchTerm(q)
    \/ handleSearchWord
    \/ clearSearchForm
    \/ clearAll
    \/ timerFires

SpecClear == Init /\ [][NextClear]_vars

\* what the user types into the start/end fields while choosing a segment
SegmentInputs == {"", "-1", "3.0", "9.3"}

\* the responses to the transcription of a two-word recording
SegmentResponses == {data \in Responses : data.wordTimestamps = NearPair}

\* the dialog right after a file was selected in it: the model was reported
\* loaded and the duration probe of the file is still running
InitDialogProbing ==
    \E a \in {"blob:a1"} :
        /\ localAudioFile = a
        /\ localModelLoaded = TRUE
        /\ dlgUseFullAudio = TRUE
        /\ dlgStartTime = "0"
        /\ dlgEndTime = "0"
        /\ dlgAudioDuration = Null
        /\ probes = {[asset |-> a, useFullAudio |-> TRUE]}

InitSegment ==
    InitMain /\ isNewAudioDialogOpen = TRUE /\ InitDialogProbing /\ InitIdle

\* the time segment from the dialog to the request: the segment is chosen in
\* the dialog, created, changed in the main view and submitted
NextSegment ==
    \/ \E p \in probes : loadedmetadata(p)
    \/ \E checked \in BOOLEAN : handleUseFullAudioChange(checked)
    \/ \E field \in {"start", "end"}, value \in SegmentInputs :
           handleTimeChange(field, value)
    \/ handleCreate
    \/ \E checked \in BOOLEAN : onUseFullAudioChange(checked)
    \/ \E value \in SegmentInputs : onStartTimeChange(value)
    \/ \E value \in SegmentInputs : onEndTimeChange(value)
    \/ handleTranscribe
    \/ transcribeFailed
    \/ \E data \in SegmentResponses : transcribeDone(data)

SpecSegment == InitSegment /\ [][NextSegment]_vars

\* the fetches of a transcription in flight resolve or are rejected
transcribeReturns ==
    \/ transcribeFailed
    \/ \E data \in SegmentResponses : transcribeDone(data)

\* the busy flag and the progress bar: transcribing, Clear All and the
\* progress resets of completed transcriptions
NextBusy ==
    \/ handleCreate
    \/ \E checked \in BOOLEAN : onUseFullAudioChange(checked)
    \/ handleTranscribe
    \/ transcribeReturns
    \/ timerFires
    \/ clearAll

\* LLM processing and its history, with transcription, Clear All and a
\* second Create of a recording
NextProcess ==
    \/ handleCreate
    \/ handleTranscribe
    \/ transcribeReturns
    \/ timerFires
    \/ clearAll
    \/ \E handler \in Handlers : processStarted(handler)
    \/ processDone
    \/ processFailed
    \/ navigatePrev
    \/ navigateNext
    \/ openNewAudioDialog
    \/ \E url \in Recordings : onstop(url)
    \/ checkModelStatus(TRUE)

SpecProcess == Init /\ [][NextProcess]_vars

\* every fetch eventually resolves or is rejected
SpecBusy == Init /\ [][NextBusy]_vars /\ WF_vars(transcribeReturns)

\* the dialog after a file was selected and probed, while the status of the
\* model is still being fetched
InitDialogChecking ==
    \E a \in {"blob:a1"} :
        /\ localAudioFile = a
        /\ localModelLoaded = FALSE
        /\ dlgUseFullAudio = TRUE
        /\ dlgStartTime = "0"
        /\ dlgEndTime = toString(DurationOf(a))
        /\ dlgAudioDuration = DurationOf(a)
        /\ probes = {}

\* the dialog was opened on a server that has loaded nothing: the effect on
\* [localWhisperModel, open] has issued its checkModelStatus
InitModel ==
    /\ InitMain /\ isNewAudioDialogOpen = TRUE /\ InitDialogChecking
    /\ InitServer
    /\ modelRoute \in {"part_012", "route.ts"}
    /\ modelCalls = {fetchModel("GET", localWhisperModel)}
    /\ latex = <<>>
    /\ transcribeRoute = "route.ts"
    /\ routeCalls = <<>>

\* choosing and loading Whisper models in the dialog
NextModel ==
    \/ \E value \in Models : handleModelChange(value)
    \/ loadModel
    \/ \E c \in modelCalls, fails \in BOOLEAN : modelGET(c, fails)
    \/ \E c \in modelCalls, fails \in BOOLEAN : modelPOST(c, fails)
    \/ \E c \in modelCalls : modelPOSTwaited(c)
    \/ \E c \in modelCalls : modelFetchReturns(c)

SpecModel == InitModel /\ [][NextModel]_vars

\* the LaTeX sources the client posts
LatexContents == {"", "\\documentclass{article}"}

\* LaTeX compilations of the route /api/latex
NextLatex ==
    \/ \E latexContent \in LatexContents : latexPOST(latexContent)
    \/ \E j \in DOMAIN latex, code \in {0, 1}, pdf \in BOOLEAN :
           firstPassCloses(j, code, pdf)
    \/ \E j \in DOMAIN latex : firstPassError(j)
    \/ \E j \in DOMAIN latex, pdf \in BOOLEAN : secondPassCloses(j, pdf)
    \/ \E j \in DOMAIN latex : secondPassError(j)
    \/ \E j \in DOMAIN latex : latexResumes(j)

SpecLatex == Init /\ [][NextLatex]_vars

\* either version of the route /api/transcribe, idle
InitRoute ==
    /\ InitMain /\ isNewAudioDialogOpen = TRUE /\ InitDialogReady
    /\ InitServer
    /\ modelCalls = {}
    /\ modelRoute = "route.ts"
    /\ latex = <<>>
    /\ transcribeRoute \in {"route.ts", "part_015"}
    /\ routeCalls = <<>>

\* requests to the route /api/transcribe, with and without their fields
NextRoute ==
    \/ \E audioPath \in {Undefined, "blob:a1"}, model \in Models \cup {Undefined} :
           transcribePOST(audioPath, model)
    \/ \E i \in DOMAIN routeCalls, outcome \in Outcomes :
           whisperReturns(i, outcome)

SpecRoute == InitRoute /\ [][NextRoute]_vars

\* ------------------------------------------------------------------------
\* Properties of search
\* ------------------------------------------------------------------------

\* distance of two times, in milliseconds
Distance(a, b) == IF a >= b THEN a - b ELSE b - a

\* the term a search looks for
TermOf(q) == toLowerCase(trim(q))

\* the positions of ts whose lower-cased word contains term
Hits(ts, term) ==
    {i \in 1..Len(ts) : includes(toLowerCase(ts[i].word), term)}

\* the hits that no earlier hit shares its start rounded to 0.1 s with
FirstOfTenth(ts, term) ==
    LET hits == Hits(ts, term)
    IN {i \in hits : \A j \in hits :
            j < i => toFixed1(ts[j].start) # toFixed1(ts[i].start)}

\* the hits that no earlier hit is less than 0.1 s away from
FirstNearby(ts, term) ==
    LET hits == Hits(ts, term)
    IN {i \in hits : \A j \in hits :
            j < i => ~Near(ts[j].start, ts[i].start)}

\* the positions P of a sequence of length n, in ascending order
InOrder(P, n) == SelectSeq([i \in 1..n |-> i], LAMBDA i : i \in P)

\* result copies word, start and end of record
CopyOf(result, record) ==
    /\ result.word = record.word
    /\ result.start = record.start
    /\ result.end = record.end

\* results are copies of the records of ts at the positions P, in stored
\* order, up to the first MaxResults of them
ReturnsPositions(results, ts, P) ==
    LET pos == InOrder(P, Len(ts))
        n   == IF Len(pos) <= MaxResults THEN Len(pos) ELSE MaxResults
    IN /\ Len(results) = n
       /\ \A k \in 1..n : CopyOf(results[k], ts[pos[k]])

\* handleSearch runs past its two early returns
SearchRuns ==
    TermOf(localSearchTerm) # <<>> /\ wordTimestamps # <<>> /\ handleSearch

\* handleSearchWord runs past its early return
SearchWordRuns ==
    trim(searchTerm) # <<>> /\ wordTimestamps # <<>> /\ handleSearchWord

\* C1 as stated: no two results of one search have start values that differ
\* by less than 0.1 seconds.
C1_Original ==
    \A i, j \in 1..Len(searchResults) :
        i # j => Distance(searchResults[i].start, searchResults[j].start)
                     >= DedupEpsilon

\* C1 as amended: no two results of handleSearch have the same start rounded
\* to 0.1 s, and no two results of handleSearchWord have start values that
\* differ by less than 0.1 seconds.
C1_Amended ==
    \A i, j \in 1..Len(searchResults) :
        i # j =>
            /\ tab = "box" =>
                   toFixed1(searchResults[i].start)
                       # toFixed1(searchResults[j].start)
            /\ tab = "form" =>
                   Distance(searchResults[i].start, searchResults[j].start)
                       >= DedupEpsilon

\* handleSearch has returned 1.04 and 1.06, which round to different tenths
C1_Witness ==
    /\ tab = "box"
    /\ wordTimestamps = NearPair
    /\ Len(searchResults) = 2
    /\ searchResults[1].start = 1040
    /\ searchResults[2].start = 1060

\* C2 as stated: search evaluates matching records in stored order and, for
\* each value of start rounded to 0.1 s, keeps exactly the first matching
\* record with that rounded value and drops every later one; two "hi"
\* records at 1.00 and 1.04 yield exactly 1 result.
C2_Original ==
    [][ /\ SearchRuns =>
               ReturnsPositions(searchResults', wordTimestamps,
                   FirstOfTenth(wordTimestamps, TermOf(localSearchTerm)))
        /\ SearchWordRuns =>
               ReturnsPositions(searchResults', wordTimestamps,
                   FirstOfTenth(wordTimestamps, TermOf(searchTerm))) ]_vars

\* C2 as amended: handleSearch keeps, for each value of start rounded to
\* 0.1 s, exactly the first matching record with that rounded value;
\* handleSearchWord keeps exactly the matching records that no earlier
\* matching record is less than 0.1 s away from; both yield exactly 1 result
\* for two "hi" records at 1.00 and 1.04.
C2_Amended ==
    [][ /\ SearchRuns =>
               ReturnsPositions(searchResults', wordTimestamps,
                   FirstOfTenth(wordTimestamps, TermOf(localSearchTerm)))
        /\ SearchWordRuns =>
               ReturnsPositions(searchResults', wordTimestamps,
                   FirstNearby(wordTimestamps, TermOf(searchTerm)))
        /\ /\ wordTimestamps = SameBucket
           /\ \/ TermOf(localSearchTerm) = <<"h","i">> /\ SearchRuns
              \/ TermOf(searchTerm) = <<"h","i">> /\ SearchWordRuns
           => Len(searchResults') = 1 ]_vars

\* handleSearchWord has dropped 1.06 for the 1.04 before it, although 1.06 is
\* the first match that rounds to 1.1
C2_Witness ==
    /\ tab = "form"
    /\ wordTimestamps = NearPair
    /\ TermOf(searchTerm) = <<"h","i">>
    /\ Len(searchResults) = 1
    /\ searchResults[1].start = 1040

\* C3 as stated: for all words W and queries Q where lower-cased Q is a
\* substring of lower-cased W, searching Q against a held sequence of only
\* {word: W, start: 1.0, end: 1.5} returns exactly one result, with
\* word = W in its original casing.
C3_Original ==
    [][ LET W == wordTimestamps[1].word
            one == Len(searchResults') = 1 /\ searchResults'[1].word = W
        IN /\ Len(wordTimestamps) = 1
           /\ wordTimestamps[1].start = 1000
           /\ wordTimestamps[1].end = 1500
           => /\ /\ includes(toLowerCase(W), toLowerCase(localSearchTerm))
                 /\ handleSearch
                 => one
              /\ /\ includes(toLowerCase(W), toLowerCase(searchTerm))
                 /\ handleSearchWord
                 => one ]_vars

\* what a search for a trimmed, lower-cased term that is not empty returns
\* from ts: only records whose lower-cased word contains the term, at least
\* one of them if there is any, and exactly the record in its original
\* casing if ts holds only {word: W, start: 1.0, end: 1.5}
ReturnsMatches(results, ts, term) ==
    /\ \A k \in 1..Len(results) :
           includes(toLowerCase(results[k].word), term)
    /\ (Hits(ts, term) = {}) <=> (results = <<>>)
    /\ /\ Len(ts) = 1 /\ ts[1].start = 1000 /\ ts[1].end = 1500
       /\ Hits(ts, term) # {}
       => Len(results) = 1 /\ results[1].word = ts[1].word

\* C3 as amended: for a query that is not empty after trimming, a record is
\* a search match iff its lower-cased word contains the lower-cased, trimmed
\* query as a substring; for all W and Q where lower-cased, trimmed Q is not
\* empty and a substring of lower-cased W, searching Q against a held
\* sequence of only {word: W, start: 1.0, end: 1.5} returns exactly one
\* result, with word = W in its original casing.
C3_Amended ==
    [][ /\ SearchRuns =>
               ReturnsMatches(searchResults', wordTimestamps,
                              TermOf(localSearchTerm))
        /\ SearchWordRuns =>
               ReturnsMatches(searchResults', wordTimestamps,
                              TermOf(searchTerm)) ]_vars

\* " HI " has found the only record, "Hi"
C3_Witness ==
    /\ tab = "form"
    /\ wordTimestamps = << Rec(<<"H","i">>, 1000, 1500) >>
    /\ searchTerm = <<" ","H","I"," ">>
    /\ searchResults = << Rec(<<"H","i">>, 1000, 1500) >>

\* C4: a search never returns more than 50 results; when more than 50
\* de-duplicated matches exist (75 matching timestamps) it returns exactly
\* 50, the first 50 de-duplicated matches in stored order, and signals no
\* error.
C4_Cap ==
    [][ LET capped(P) ==
                LET pos == InOrder(P, Len(wordTimestamps))
                IN Len(pos) > MaxResults =>
                       /\ Len(searchResults') = MaxResults
                       /\ \A k \in 1..MaxResults :
                              CopyOf(searchResults'[k],
                                     wordTimestamps[pos[k]])
        IN /\ handleSearch \/ handleSearchWord =>
                  Len(searchResults') <= MaxResults /\ error' = error
           /\ SearchRuns =>
                  capped(FirstOfTenth(wordTimestamps,
                                      TermOf(localSearchTerm)))
           /\ SearchWordRuns =>
                  capped(FirstNearby(wordTimestamps, TermOf(searchTerm)))
      ]_vars

\* a search over 75 hits has returned the first 50
C4_Witness ==
    /\ wordTimestamps = Overflow
    /\ Len(searchResults) = MaxResults
    /\ \A k \in 1..MaxResults : CopyOf(searchResults[k], wordTimestamps[k])
    /\ error = "null"

\* C5: a search whose query is empty or whitespace-only after trimming, or
\* a search against an empty held sequence, sets the result set to empty
\* and raises no error, whatever the previous result set was.
C5_EmptySearch ==
    [][ /\ /\ TermOf(localSearchTerm) = <<>> \/ wordTimestamps = <<>>
           /\ handleSearch
           => searchResults' = <<>> /\ error' = error
        /\ /\ trim(searchTerm) = <<>> \/ wordTimestamps = <<>>
           /\ handleSearchWord
           => searchResults' = <<>> /\ error' = error ]_vars

\* handleSearch has looked for "hi" in an empty held sequence: every other
\* held sequence has a hit for it
C5_Witness ==
    /\ tab = "box"
    /\ wordTimestamps = <<>>
    /\ searchTerm = <<"h","i">>
    /\ searchResults = <<>>
    /\ error = "null"

\* C6: the held word-timestamp sequence, the transcribed text and the
\* segment selection (useFullAudio, startTime, endTime, audioDuration) are
\* unchanged by any search or clear-search.
C6_Frame ==
    [][ handleSearch \/ clearSearch \/ handleSearchWord \/ clearSearchForm
        => UNCHANGED <<wordTimestamps, transcribedText, segmentVars>> ]_vars

\* a search has returned a record of the held sequence beside a transcribed
\* text and an explicit segment selection
C6_Witness ==
    /\ searchResults # <<>>
    /\ \E i \in 1..Len(wordTimestamps) :
           CopyOf(searchResults[1], wordTimestamps[i])
    /\ transcribedText # <<>>
    /\ ~useFullAudio
    /\ endTime = 9300
    /\ audioDuration = 9300

\* results are copies of the records at some positions of ts, in stored
\* order: of the first occurrence of every record that has a copy among them
IsSubsequence(results, ts) ==
    LET P == {i \in 1..Len(ts) :
                 /\ \E k \in 1..Len(results) : CopyOf(results[k], ts[i])
                 /\ \A j \in 1..(i - 1) : ~CopyOf(ts[j], ts[i])}
        pos == InOrder(P, Len(ts))
    IN /\ Len(results) = Len(pos)
       /\ \A k \in 1..Len(results) : CopyOf(results[k], ts[pos[k]])

\* ts is in temporal order
InTemporalOrder(ts) ==
    \A i \in 1..(Len(ts) - 1) : ts[i].start <= ts[i + 1].start

\* C7: the search result is a subsequence of the held sequence in stored
\* order, so that for a held sequence in temporal order the results are in
\* ascending start order, and they number between 0 and 50.
C7_Subsequence ==
    [][ handleSearch \/ handleSearchWord =>
            /\ IsSubsequence(searchResults', wordTimestamps)
            /\ InTemporalOrder(wordTimestamps) =>
                   \A k \in 1..(Len(searchResults') - 1) :
                       searchResults'[k].start <= searchResults'[k + 1].start
            /\ Len(searchResults') \in 0..MaxResults ]_vars

\* handleSearch has returned the first two of three hits, in stored order
C7_Witness ==
    /\ tab = "box"
    /\ wordTimestamps = Chain
    /\ Len(searchResults) = 2
    /\ CopyOf(searchResults[1], Chain[1])
    /\ CopyOf(searchResults[2], Chain[2])

\* result carries the 1-based position in ts of the record it copies
CarriesPosition(result, ts) ==
    /\ "index" \in DOMAIN result
    /\ result.index \in 1..Len(ts)
    /\ CopyOf(result, ts[result.index])

\* C8 as stated: every search result carries an index equal to the 1-based
\* position of its matched record within the full held sequence, and its
\* word, start and end are copied unchanged from that record.
C8_Original ==
    [][ SearchRuns \/ SearchWordRuns =>
            \A k \in 1..Len(searchResults') :
                CarriesPosition(searchResults'[k], wordTimestamps) ]_vars

\* C8 as amended: every result of handleSearch carries an index equal to
\* the 1-based position of its matched record within the full held sequence
\* (not its position among the matches), and its word, start and end are
\* copied unchanged from that record; query "person" on the 5-word scenario
\* transcript yields index 4. A result of handleSearchWord carries the
\* word, start and end of its matched record and no index.
C8_Amended ==
    [][ /\ SearchRuns =>
               \A k \in 1..Len(searchResults') :
                   CarriesPosition(searchResults'[k], wordTimestamps)
        /\ /\ SearchRuns
           /\ wordTimestamps = Scenario
           /\ TermOf(localSearchTerm) = <<"p","e","r","s","o","n">>
           => /\ Len(searchResults') = 1
              /\ searchResults'[1].index = 4
        /\ SearchWordRuns =>
               \A k \in 1..Len(searchResults') :
                   /\ DOMAIN searchResults'[k] = {"word", "start", "end"}
                   /\ \E i \in 1..Len(wordTimestamps) :
                          CopyOf(searchResults'[k], wordTimestamps[i]) ]_vars

\* handleSearch has found "person", the fourth word of the scenario, as its
\* only match
C8_Witness ==
    /\ tab = "box"
    /\ wordTimestamps = Scenario
    /\ Len(searchResults) = 1
    /\ searchResults[1].word = <<"p","e","r","s","o","n">>
    /\ searchResults[1].index = 4

\* C9: after a successful transcription installs sequence B in place of a
\* held sequence A, the held sequence equals B exactly (the empty sequence
\* if the response has none), and a search from then on returns records of
\* the held sequence only: none for a word that no held record contains.
C9_Replace ==
    [][ /\ \A data \in Responses :
               transcribeDone(data) =>
                   wordTimestamps' = IF data.hasWordTimestamps
                                     THEN data.wordTimestamps ELSE <<>>
        /\ SearchRuns =>
               /\ \A k \in 1..Len(searchResults') :
                      \E i \in 1..Len(wordTimestamps) :
                          CopyOf(searchResults'[k], wordTimestamps[i])
               /\ Hits(wordTimestamps, TermOf(localSearchTerm)) = {}
                      => searchResults' = <<>>
        /\ SearchWordRuns =>
               /\ \A k \in 1..Len(searchResults') :
                      \E i \in 1..Len(wordTimestamps) :
                          CopyOf(searchResults'[k], wordTimestamps[i])
               /\ Hits(wordTimestamps, TermOf(searchTerm)) = {}
                      => searchResults' = <<>> ]_vars

\* the two "hi" of a later transcription have replaced the scenario
\* transcript, whose "person" is still among the results of the search
\* before it
C9_Witness ==
    /\ wordTimestamps = NearPair
    /\ transcribedText = TextOf(NearPair)
    /\ Len(searchResults) = 1
    /\ searchResults[1].word = <<"p","e","r","s","o","n">>

\* ------------------------------------------------------------------------
\* Properties of the time segment of the New Audio dialog
\* ------------------------------------------------------------------------

\* the dialog holds an explicit range over an audio of 10.0 s
ExplicitRangeOfTen(start, end) ==
    /\ ~dlgUseFullAudio
    /\ dlgAudioDuration = 10000
    /\ dlgStartTime = start
    /\ dlgEndTime = end

\* C10: validate returns true iff useFullAudio is true, or all of:
\* startTime and endTime are finite numbers, startTime >= 0,
\* endTime > startTime, and (audioDuration is unknown or
\* endTime <= audioDuration); with audioDuration = 10.0 and
\* useFullAudio = false it is true for (0,10) and false for (0,10.001),
\* (5,5) and (-1,5).
C10_Validate ==
    LET start == parseFloat(dlgStartTime)
        end   == parseFloat(dlgEndTime)
    IN /\ validateTimeSegment <=>
              \/ dlgUseFullAudio
              \/ /\ ~isNaN(start) /\ ~isNaN(end)
                 /\ start >= 0
                 /\ end > start
                 /\ dlgAudioDuration = Null \/ end <= dlgAudioDuration
       /\ ExplicitRangeOfTen("0", "10") => validateTimeSegment
       /\ ExplicitRangeOfTen("0", "10.001") => ~validateTimeSegment
       /\ ExplicitRangeOfTen("5", "5") => ~validateTimeSegment
       /\ ExplicitRangeOfTen("-1", "5") => ~validateTimeSegment
\* ------------------------------------------------------------------------
\* Properties of the time segment
\* ------------------------------------------------------------------------

\* the request that the handleTranscribe of this step sends
Sent == request'[Len(request')]

\* a request body that tells the backend to transcribe a part of the audio
IsExplicit(r) == "useFullAudio" \in DOMAIN r /\ ~r.useFullAudio

\* validate of an explicit range, against a duration that may be unknown
ValidRange(start, end, duration) ==
    /\ 0 <= start
    /\ start < end
    /\ duration # Null => end <= duration

\* C11: whenever a transcription request is sent with useFullAudio = false,
\* its range satisfies 0 <= startTime < endTime and, if audioDuration is
\* known, endTime <= audioDuration.
C11_ValidRequest ==
    [][handleTranscribe /\ IsExplicit(Sent)
          => ValidRange(Sent.startTime, Sent.endTime, audioDuration)]_vars

\* C12: the request of a transcription tells the backend to use the full
\* audio when useFullAudio is true, and carries useFullAudio = false with
\* exactly the stored (startTime, endTime) when it is false.
C12_EffectiveRange ==
    [][handleTranscribe
          => LET sent == POST(Sent)
             IN IF useFullAudio THEN sent.use_full_audio
                ELSE /\ ~sent.use_full_audio
                     /\ sent.start_time = startTime
                     /\ sent.end_time = endTime]_vars

\* the text of a field does not parse as a non-negative float
FailsToParse(value) == isNaN(parseFloat(value)) \/ parseFloat(value) < 0

\* C13: setting startTime or endTime from an input that fails to parse as a
\* non-negative float (the empty string, a negative number) stores 0.
C13_Coercion ==
    [][/\ \A value \in SegmentInputs :
              FailsToParse(value)
                  => /\ onStartTimeChange(value) => startTime' = 0
                     /\ onEndTimeChange(value) => endTime' = 0
       /\ handleCreate
              => /\ FailsToParse(dlgStartTime) => startTime' = 0
                 /\ FailsToParse(dlgEndTime) => endTime' = 0]_vars

\* the number a field of the main view holds after the text value was typed
Typed(value) == IF isNaN(parseFloat(value)) THEN 0 ELSE parseFloat(value)

C15_FullAudio ==
    [][/\ handleUseFullAudioChange(TRUE)
             => IF dlgAudioDuration # Null
                THEN /\ parseFloat(dlgStartTime') = 0
                     /\ parseFloat(dlgEndTime') = dlgAudioDuration
                ELSE UNCHANGED <<dlgStartTime, dlgEndTime>>
       /\ onUseFullAudioChange(TRUE)
             => IF audioDuration # Null
                THEN startTime' = 0 /\ endTime' = audioDuration
                ELSE UNCHANGED <<startTime, endTime>>]_vars

\* C16: setting the full-audio flag to false leaves startTime and endTime
\* unchanged.
C16_ExplicitKeeps ==
    [][/\ handleUseFullAudioChange(FALSE)
             => UNCHANGED <<dlgStartTime, dlgEndTime>>
       /\ onUseFullAudioChange(FALSE)
             => UNCHANGED <<startTime, endTime>>]_vars

\* C18: a known audioDuration stays known until Create attaches a new asset,
\* and a successful transcription sets audioDuration to the duration that
\* the response reports.
C18_DurationStaysKnown ==
    [][/\ (~handleCreate /\ audioDuration # Null) => audioDuration' # Null
       /\ \A data \in SegmentResponses :
              (transcribeDone(data) /\ data.audioDuration # Null)
                  => audioDuration' = data.audioDuration]_vars

\* ------------------------------------------------------------------------
\* Properties of replacing the audio
\* ------------------------------------------------------------------------

\* the segment selection of the dialog is the one of a fresh asset
SelectionIsReset ==
    /\ dlgUseFullAudio
    /\ parseFloat(dlgStartTime) = 0
    /\ parseFloat(dlgEndTime) = 0
    /\ dlgAudioDuration = Null

\* C17: when a new file is selected or a recording is taken in the New Audio
\* dialog, or the dialog is reopened, the segment selection is reset to
\* useFullAudio = true, startTime = 0, endTime = 0, audioDuration unknown.
C17_Reset ==
    [][/\ openNewAudioDialog => SelectionIsReset'
       /\ \A a \in SecondFiles : handleFileSelect(a) => SelectionIsReset'
       /\ \A url \in Recordings : onstop(url) => SelectionIsReset']_vars

\* the word timestamps and the text on display are empty or those of the
\* transcription of the attached asset
BelongsToAsset ==
    \/ audioFilePath = NoFile
    \/ /\ wordTimestamps \in {<<>>, TranscriptOf(audioFilePath)}
       /\ transcribedText \in {<<>>, TextOf(TranscriptOf(audioFilePath))}

\* C19: the held word timestamps and the transcribed text always belong to
\* the attached audio asset, also when Create replaces the asset while the
\* transcription of the previous asset is in flight.
C19_BelongsToAsset == BelongsToAsset

\* the entry r of the results is a record of the sequence ts
IsRecordOf(r, ts) ==
    \E j \in 1..Len(ts) :
        /\ r.word = ts[j].word
        /\ r.start = ts[j].start
        /\ r.end = ts[j].end

\* C20: in every reachable state each entry of the displayed search results
\* has the word, start and end of a record of the held word timestamps; a
\* result set of an earlier transcription does not survive the replacement
\* of the sequence.
C20_ResultsOfHeld ==
    \A i \in 1..Len(searchResults) :
        IsRecordOf(searchResults[i], wordTimestamps)

\* ------------------------------------------------------------------------
\* Properties of the duration probe
\* ------------------------------------------------------------------------

\* C21: when the duration probe of a selected file completes, audioDuration
\* is set to the probed duration, and endTime is overwritten with it only if
\* useFullAudio is true at that moment; an endTime typed in the meantime is
\* kept.
C21_ProbeCompletes ==
    [][\A p \in probes :
          loadedmetadata(p)
              => /\ dlgAudioDuration' = DurationOf(p.asset)
                 /\ dlgUseFullAudio
                       => parseFloat(dlgEndTime') = DurationOf(p.asset)
                 /\ ~dlgUseFullAudio => dlgEndTime' = dlgEndTime]_vars

\* C22: whenever the audioDuration of the dialog is known, it is the duration
\* of the file that is selected now (a recording is never probed, so it has
\* none), whatever the order in which the probes complete.
C22_DurationOfSelected ==
    dlgAudioDuration # Null
        => /\ localAudioFile \notin Recordings
           /\ localAudioFile \in Assets
                 => dlgAudioDuration = DurationOf(localAudioFile)

\* ------------------------------------------------------------------------
\* Properties of the busy flag and the progress bar
\* ------------------------------------------------------------------------

\* the state that the success branch of handleTranscribe leaves
Completed ==
    ~isTranscribing /\ status = "Transcription completed" /\ error = "null"

\* the state that the catch block of handleTranscribe leaves
Failed ==
    ~isTranscribing /\ status = "Transcription failed" /\ error # "null"

\* C23: if every fetch eventually resolves or is rejected, a transcription
\* that set isTranscribing is followed by a state with isTranscribing false
\* and either status "Transcription completed" and error null, or status
\* "Transcription failed" and an error.
C23_BusyClears == isTranscribing ~> (Completed \/ Failed)

\* a transcription failed after an earlier one had completed
C23_Witness == Failed /\ transcribedText # <<>> /\ timers > 0

\* what a failed transcription must not touch
KeptByFailure ==
    <<wordTimestamps, transcribedText, audioDuration, searchResults,
      audioFilePath, modelLoaded, useFullAudio, startTime, endTime,
      searchTerm, timers, isNewAudioDialogOpen, tabVars, dialogVars>>

\* C24: a failed transcription, from the click to the catch block, leaves
\* the word timestamps, the transcribed text, audioDuration and the search
\* results as they were; only isTranscribing, progress, status and error
\* change.
C24_FailureFrame ==
    [][/\ handleTranscribe => UNCHANGED <<KeptByFailure, error>>
       /\ transcribeFailed => UNCHANGED KeptByFailure]_vars

\* a transcription failed while results of a search were on display
C24_Witness ==
    /\ Failed
    /\ progress = 0
    /\ transcribedText # <<>>
    /\ wordTimestamps # <<>>
    /\ searchResults # <<>>

\* C25: while a transcription or an LLM call is in flight, progress is
\* greater than 0, whatever the progress resets of earlier operations do.
C25_ProgressWhileBusy == isTranscribing \/ isProcessing => progress > 0

\* ------------------------------------------------------------------------
\* Properties of the process history
\* ------------------------------------------------------------------------

\* currentHistoryIndex selects an entry of processHistory, or is -1 when
\* there is none
IndexInRange ==
    IF processHistory = <<>> THEN currentHistoryIndex = -1
    ELSE 0 <= currentHistoryIndex /\ currentHistoryIndex < Len(processHistory)

\* C26: currentHistoryIndex is -1 when processHistory is empty and an index
\* of it otherwise; a successful summarize or custom prompt appends exactly
\* one entry to processHistory and selects it, a failed one leaves
\* processHistory and currentHistoryIndex unchanged.
C26_History ==
    [][/\ IndexInRange'
       /\ processDone
             => /\ Len(processHistory') = Len(processHistory) + 1
                /\ SubSeq(processHistory', 1, Len(processHistory))
                       = processHistory
                /\ currentHistoryIndex' = Len(processHistory') - 1
       /\ processFailed
             => UNCHANGED <<processHistory, currentHistoryIndex>>]_vars

\* ------------------------------------------------------------------------
\* Properties of the Whisper model
\* ------------------------------------------------------------------------

\* C27: in the New Audio dialog a response of a status check or of a load
\* that was issued for another model than the one selected now never marks
\* the selected model as loaded, so Create is not enabled by it
C27_SelectedModelOnly ==
    [][\A c \in modelCalls :
          modelFetchReturns(c) /\ c.model # localWhisperModel
              => ~localModelLoaded']_vars

\* the Whisper processes that were spawned and not killed
Running == {m \in Models : running[m] > 0}

\* C29: GET /api/model?model=m reports loaded exactly when the latest
\* completed load was for m and the process of that load is the one the
\* server holds, and at most one Whisper process runs at any time
C29_LoadedIffHeld ==
    /\ \A m \in Models : GET(m) <=> (lastLoad = m /\ whisperProcess = m)
    /\ \A m \in Models : running[m] <= 1
    /\ Cardinality(Running) <= 1

\* ------------------------------------------------------------------------
\* Properties of the route /api/latex
\* ------------------------------------------------------------------------

\* C28: while the second pdflatex pass of a compilation is running, the
\* promise of compileToPdf is not resolved, and the route has neither read
\* document.pdf nor deleted the temporary files
C28_AfterSecondPass ==
    \A j \in DOMAIN latex :
        latex[j].second = "running"
            => /\ latex[j].resolved = "pending"
               /\ ~latex[j].read
               /\ ~latex[j].cleaned

\* ------------------------------------------------------------------------
\* Properties of the route /api/transcribe
\* ------------------------------------------------------------------------

\* the result of the Whisper server that the route holds has an error field
HasError(call) == call.outcome \in {"error", "no JSON"}

\* C30: a request to /api/transcribe without audioPath or without model is
\* answered with status 400 and the Whisper server is not contacted for it;
\* a result of the Whisper server with an error is answered with status 500
C30_Validated ==
    \A i \in DOMAIN routeCalls :
        LET call == routeCalls[i]
        IN  /\ (call.audioPath = Undefined \/ call.model = Undefined)
                   => call.status = 400 /\ ~call.contacted
            /\ HasError(call) => call.status = 500

====
